---- MODULE Spec2Model ----
(***************************************************************************)
(* A model of the JSON text builder of httools (src/json.rs).              *)
(*                                                                         *)
(* Text is a sequence of one-character strings.  The builder is modelled   *)
(* as a stack of scope frames: the callbacks handed to the builder are     *)
(* caller code, so every operation the type of a scope lets a callback     *)
(* invoke is an action that is enabled while that scope is on top of the   *)
(* stack, and returning from the callback is an action as well.            *)
(*                                                                         *)
(* The escaper (json_str) is modelled twice: as the operator json_str that *)
(* the builder applies, and step by step (SpecEsc) with the chunks in      *)
(* which a Display implementation hands its text to write_str.             *)
(***************************************************************************)
EXTENDS Integers, Sequences, FiniteSets, TLC

\* ------------------------------------------------------------ bounds ----

\* Operations (other than returns) a build performs.
MaxOps == 4

\* Frames on the scope stack (the JsonBuilder frame included).
MaxDepth == 6

\* Length of the texts handed to the escaper in SpecEsc.
MaxLen == 3

\* Length of the header values of SpecEtags.
MaxHeaderLen == 5

\* Length of the paths of SpecPath.
MaxPathLen == 5

\* Inserts and takes on the RequestQuery of SpecQuery.
MaxQueryOps == 4

\* ------------------------------------------------------- characters ----

QUOTE == "\""

BSL == "\\"

NL == "\n"

SP == " "

\* The characters the escaper is tried on: an ordinary character, the two
\* special characters and a control character.
EscChars == {"a", QUOTE, BSL, NL}

\* Keys, string values and raw values the callbacks of the model pass.
Keys == { <<"k">>, <<QUOTE, BSL>> }

Strings == { <<"v">>, <<BSL, QUOTE>> }

Raws == { <<"1">>, <<QUOTE, "a", QUOTE>> }

\* The keys, string values and raw values of the scenarios of the
\* specification (name = ok, count = 3, xs = [1, 2]).
ScenarioKeys == { <<"n", "a", "m", "e">>, <<"c", "o", "u", "n", "t">>, <<"x", "s">> }

ScenarioStrings == { <<"o", "k">> }

ScenarioRaws == { <<"1">>, <<"2">>, <<"3">> }

\* ------------------------------------------------------------ state ----

VARIABLES
    target,     \* JsonBuilder.target: the output buffer
    stack,      \* the scopes whose callbacks are running, innermost last
    pc,         \* "run" while build's callback runs, "done" when build returned
    result,     \* the String build returned
    trace,      \* history: the operations invoked so far, in order
    val,        \* SpecEsc: the text the value passed to json_str displays as
    pending,    \* SpecEsc: the part of val not yet handed to write_str
    s,          \* SpecEsc: the local s of write_str
    out,        \* SpecEsc: what write_str has written to the formatter
    epc,        \* SpecEsc: "idle", "fmt", "write_str" or "done"
    query,      \* SpecQuery: RequestQuery.query, a map from keys to QueryValues
    qlog,       \* SpecQuery: history, the inserts and takes so far, in order
    header,     \* SpecEtags: the header value the EtagsIter was made for
    etags,      \* SpecEtags: EtagsIter.0, the part of the value not yet read
    items,      \* SpecEtags: history, what next() has returned so far
    tpc,        \* SpecEtags: "idle", "iter", or "none" once next() returned None
    full,       \* SpecPath: PathIter.full
    remaining,  \* SpecPath: PathIter.remaining
    segments,   \* SpecPath: history, what next() has returned so far
    ipc         \* SpecPath: "idle", "iter", or "none" once next() returned None

bvars == <<target, stack, pc, result, trace>>

evars == <<val, pending, s, out, epc>>

qvars == <<query, qlog>>

tvars == <<header, etags, items, tpc>>

pvars == <<full, remaining, segments, ipc>>

\* The variables of the specifications of request.rs and response.rs.
ovars == <<qvars, tvars, pvars>>

vars == <<target, stack, pc, result, trace, val, pending, s, out, epc,
          query, qlog, header, etags, items, tpc,
          full, remaining, segments, ipc>>

\* ---------------------------------------------------------- escaper ----

\* s.find(|ch| ch == '"' || ch == '\\'): the index of the first special
\* character of t, 0 for None.
RECURSIVE FindFrom(_, _)
FindFrom(t, i) ==
    IF i > Len(t) THEN 0
    ELSE IF t[i] = QUOTE \/ t[i] = BSL THEN i
    ELSE FindFrom(t, i + 1)

\* find with a closure that forgets the backslash.
FindQuoteOnly(t) ==
    IF \E i \in 1..Len(t) : t[i] = QUOTE
    THEN CHOOSE i \in 1..Len(t) : t[i] = QUOTE /\ \A j \in 1..(i - 1) : t[j] # QUOTE
    ELSE 0

find(t) == FindFrom(t, 1)

\* An iteration that doubles the character instead of escaping it.
DoubledAt(t, idx) == SubSeq(t, 1, idx - 1) \o <<t[idx], t[idx]>>

\* An iteration that leaves out the text before the character.
EscapedAt_NoHead(t, idx) == <<BSL>> \o <<t[idx]>>

\* The three writes of one iteration of write_str's loop: the text before
\* idx, a backslash, the character at idx.
EscapedAt(t, idx) == SubSeq(t, 1, idx - 1) \o <<BSL>> \o <<t[idx]>>

\* &s[idx + 1..]
After(t, idx) == SubSeq(t, idx + 1, Len(t))

\* One call of WriteJsonStr::write_str on t: what it writes.
RECURSIVE write_str(_)
write_str(t) ==
    LET idx == find(t)
    IN  IF idx = 0 THEN t
        ELSE EscapedAt(t, idx) \o write_str(After(t, idx))

\* json_str(val) displayed, for a val that displays as t in one piece.
json_str(t) == write_str(t)

\* No RequestQuery has been made.
QueryIdle ==
    /\ query = <<>>
    /\ qlog = <<>>

\* No EtagsIter has been made.
EtagsIdle ==
    /\ header = <<>>
    /\ etags = <<>>
    /\ items = <<>>
    /\ tpc = "idle"

\* No PathIter has been made.
PathIdle ==
    /\ full = <<>>
    /\ remaining = <<>>
    /\ segments = <<>>
    /\ ipc = "idle"

\* ------------------------------------------- escaper, step by step ----

\* All texts over EscChars of length at most n.
RECURSIVE TextsUpTo(_)
TextsUpTo(n) ==
    IF n = 0 THEN { <<>> }
    ELSE LET shorter == TextsUpTo(n - 1)
         IN  shorter \cup { Append(t, c) : t \in { u \in shorter : Len(u) = n - 1 }, c \in EscChars }

EscIdle ==
    /\ val = <<>>
    /\ pending = <<>>
    /\ s = <<>>
    /\ out = <<>>
    /\ epc = "idle"

\* JsonStr::fmt: the Display implementation of the wrapped value hands its
\* text to write_str, in as many pieces as it likes.
WriteStrCall(n) ==
    /\ epc = "fmt"
    /\ n \in 0..Len(pending)
    /\ s' = SubSeq(pending, 1, n)
    /\ pending' = SubSeq(pending, n + 1, Len(pending))
    /\ epc' = "write_str"
    /\ UNCHANGED <<val, out>>

\* One iteration of the while-let loop of write_str.
WriteStrLoop ==
    /\ epc = "write_str"
    /\ find(s) # 0
    /\ out' = out \o EscapedAt(s, find(s))
    /\ s' = After(s, find(s))
    /\ UNCHANGED <<val, pending, epc>>

\* The loop is left: the rest of s is written and write_str returns.
WriteStrExit ==
    /\ epc = "write_str"
    /\ find(s) = 0
    /\ out' = out \o s
    /\ s' = <<>>
    /\ epc' = "fmt"
    /\ UNCHANGED <<val, pending>>

\* The Display implementation has handed over all of its text.
FmtReturn ==
    /\ epc = "fmt"
    /\ pending = <<>>
    /\ epc' = "done"
    /\ UNCHANGED <<val, pending, s, out>>

\* ------------------------------------------------------ scope frames ----

\* A scope whose callback is running.  kind, indent and empty are the
\* fields of the struct; sugar tells a JsonValue that was handed to one of
\* the closures |json| json.object(op) / |json| json.array(op) from one
\* that was handed to a callback of the caller.  writes, seps and members
\* are history: the write operations invoked on a JsonValue or JsonBuilder,
\* the separators a JsonObject or JsonArray has emitted, and the member or
\* element writes invoked on it with the part of the buffer each one wrote
\* before it handed over to the value.
Frame(kind, indent, empty, sugar) ==
    [kind |-> kind, indent |-> indent, empty |-> empty, sugar |-> sugar,
     writes |-> 0, seps |-> 0, members |-> <<>>]

Top == stack[Len(stack)]

Pop(st) == SubSeq(st, 1, Len(st) - 1)

\* The stack with its innermost frame replaced by f.
SetTop(st, f) == [st EXCEPT ![Len(st)] = f]

IsReturn(e) == e[1] = "return"

IsContainer(f) == f.kind \in {"JsonObject", "JsonArray"}

\* The operations invoked so far, returns not counted.
OpsDone == Len(SelectSeq(trace, LAMBDA e : ~IsReturn(e)))

Running(kind) ==
    /\ pc = "run"
    /\ epc = "idle"
    /\ Top.kind = kind

CanOp == OpsDone < MaxOps

CanPush(n) == Len(stack) + n <= MaxDepth

\* ------------------------------------------------------ text writers ----

RECURSIVE IndentText(_)
IndentText(n) == IF n = 0 THEN <<>> ELSE <<SP, SP, SP>> \o IndentText(n - 1)

\* JsonObject::append_indent
JsonObject_append_indent(t, indent) == t \o IndentText(indent)

\* JsonArray::append_indent
JsonArray_append_indent(t, indent) == t \o IndentText(indent)

\* JsonValue::append_indent
JsonValue_append_indent(t, indent) == t \o IndentText(indent)

\* append_key that writes the key as it is.
JsonObject_append_key_RawKey(t, f, key) ==
    LET head == IF f.empty THEN t ELSE t \o <<",", NL>>
    IN  [target |-> JsonObject_append_indent(head, f.indent)
                        \o <<QUOTE>> \o key \o <<QUOTE>> \o <<":", SP>>,
         empty  |-> FALSE]

\* append_key with the flag left as it was.
JsonObject_append_key_KeepFlag(t, f, key) ==
    LET head == IF f.empty THEN t ELSE t \o <<",", NL>>
    IN  [target |-> JsonObject_append_indent(head, f.indent)
                        \o <<QUOTE>> \o json_str(key) \o <<QUOTE>> \o <<":", SP>>,
         empty  |-> f.empty]

\* append_key that writes a key only once.
JsonObject_append_key_Dedup(t, f, key) ==
    IF \E m \in 1..Len(f.members) : f.members[m].key = key
    THEN [target |-> t, empty |-> f.empty]
    ELSE LET head == IF f.empty THEN t ELSE t \o <<",", NL>>
         IN  [target |-> JsonObject_append_indent(head, f.indent)
                             \o <<QUOTE>> \o json_str(key) \o <<QUOTE>> \o <<":", SP>>,
              empty  |-> FALSE]

\* JsonObject::append_key on the scope f with the buffer t: the buffer and
\* the emptiness flag afterwards.
JsonObject_append_key(t, f, key) ==
    LET head == IF f.empty THEN t ELSE t \o <<",", NL>>
    IN  [target |-> JsonObject_append_indent(head, f.indent)
                        \o <<QUOTE>> \o json_str(key) \o <<QUOTE>> \o <<":", SP>>,
         empty  |-> FALSE]

\* append_array_head that does not look at the flag.
JsonArray_append_array_head_Always(t, f) ==
    [target |-> t \o <<",", NL>>,
     empty  |-> FALSE]

\* JsonArray::append_array_head
JsonArray_append_array_head(t, f) ==
    [target |-> IF f.empty THEN t ELSE t \o <<",", NL>>,
     empty  |-> FALSE]

\* JsonArray::value up to the call of op: the head and the indent.
JsonArray_value_head(t, f) ==
    LET h == JsonArray_append_array_head(t, f)
    IN  [target |-> JsonArray_append_indent(h.target, f.indent),
         empty  |-> h.empty]

\* JsonValue::string
JsonValue_string(t, value) == t \o <<QUOTE>> \o json_str(value) \o <<QUOTE>>

\* JsonValue::raw
JsonValue_raw(t, value) == t \o json_str(value)

\* JsonValue::object up to the call of op.
JsonValue_object_open(t) == t \o <<"{", NL>>

\* object that takes back the line break of the opening delimiter.
JsonValue_object_close_Trim(t, indent) ==
    JsonValue_append_indent(SubSeq(t, 1, Len(t) - 1), indent) \o <<"}">>

\* JsonValue::object after op has returned, on a JsonValue of this indent.
JsonValue_object_close(t, indent) ==
    JsonValue_append_indent(t \o <<NL>>, indent) \o <<"}">>

\* JsonValue::array up to the call of op.
JsonValue_array_open(t) == t \o <<"[", NL>>

\* array that closes with the delimiter of object.
JsonValue_array_close_Brace(t, indent) ==
    JsonValue_append_indent(t \o <<NL>>, indent) \o <<"}">>

\* JsonValue::array after op has returned.
JsonValue_array_close(t, indent) ==
    JsonValue_append_indent(t \o <<NL>>, indent) \o <<"]">>

\* JsonBuilder::value that starts the JsonValue of the shortcuts at 0.
JsonBuilder_value_ShortcutAtZero(sugar) ==
    Frame("JsonValue", IF sugar THEN 0 ELSE 1, FALSE, sugar)

\* The JsonValue a scope of this indent hands to a callback.
JsonBuilder_value(sugar) == Frame("JsonValue", 1, FALSE, sugar)

JsonObject_value(f, sugar) == Frame("JsonValue", f.indent + 1, FALSE, sugar)

JsonArray_value(f, sugar) == Frame("JsonValue", f.indent + 1, FALSE, sugar)

\* The JsonObject / JsonArray a JsonValue hands to a callback.
JsonValue_object(v) == Frame("JsonObject", v.indent + 1, TRUE, FALSE)

JsonValue_array(v) == Frame("JsonArray", v.indent + 1, TRUE, FALSE)

\* ------------------------------------------------------------ history ----

Wrote(f) == [f EXCEPT !.writes = @ + 1]

\* Does the text written from position at on begin with a separator?
SepAt(t, at) == at + 1 <= Len(t) /\ t[at] = "," /\ t[at + 1] = NL

\* The scope f after a member or element write that took the buffer from
\* old to new and left the emptiness flag at empty.
Member(f, key, old, new, empty) ==
    [f EXCEPT !.empty = empty,
              !.seps = @ + (IF SepAt(new, Len(old) + 1) THEN 1 ELSE 0),
              !.members = Append(@, [key |-> key, at |-> Len(old) + 1, to |-> Len(new)])]

Op(name, a, b) == <<name, a, b>>

Log(name, a, b) == trace' = Append(trace, Op(name, a, b))

\* ------------------------------------------------------ JsonBuilder ----

\* JsonBuilder::value with a callback of the caller.
BuilderValue ==
    /\ Running("JsonBuilder") /\ CanOp /\ CanPush(1)
    /\ stack' = Append(stack, JsonBuilder_value(FALSE))
    /\ Log("JsonBuilder::value", <<>>, <<>>)
    /\ UNCHANGED <<target, pc, result>>

\* JsonBuilder::object: value(|json| json.object(op)), up to the call of op.
BuilderObject ==
    /\ Running("JsonBuilder") /\ CanOp /\ CanPush(2)
    /\ LET v == Wrote(JsonBuilder_value(TRUE))
       IN  /\ target' = JsonValue_object_open(target)
           /\ stack' = stack \o <<v, JsonValue_object(v)>>
    /\ Log("JsonBuilder::object", <<>>, <<>>)
    /\ UNCHANGED <<pc, result>>

\* JsonBuilder::array: value(|json| json.array(op)), up to the call of op.
BuilderArray ==
    /\ Running("JsonBuilder") /\ CanOp /\ CanPush(2)
    /\ LET v == Wrote(JsonBuilder_value(TRUE))
       IN  /\ target' = JsonValue_array_open(target)
           /\ stack' = stack \o <<v, JsonValue_array(v)>>
    /\ Log("JsonBuilder::array", <<>>, <<>>)
    /\ UNCHANGED <<pc, result>>

\* JsonBuilder::string: value(|json| json.string(value)).
BuilderString(value) ==
    /\ Running("JsonBuilder") /\ CanOp
    /\ target' = JsonValue_string(target, value)
    /\ Log("JsonBuilder::string", value, <<>>)
    /\ UNCHANGED <<stack, pc, result>>

\* JsonBuilder::raw: value(|json| json.raw(value)).
BuilderRaw(value) ==
    /\ Running("JsonBuilder") /\ CanOp
    /\ target' = JsonValue_raw(target, value)
    /\ Log("JsonBuilder::raw", value, <<>>)
    /\ UNCHANGED <<stack, pc, result>>

\* JsonBuilder::build: op has returned and build returns builder.target.
BuildReturn ==
    /\ Running("JsonBuilder")
    /\ pc' = "done"
    /\ result' = target
    /\ Log("return", "JsonBuilder", <<>>)
    /\ UNCHANGED <<target, stack>>

\* -------------------------------------------------------- JsonValue ----

\* JsonValue::object up to the call of op.
ValueObject ==
    /\ Running("JsonValue") /\ CanOp /\ CanPush(1)
    /\ target' = JsonValue_object_open(target)
    /\ stack' = Append(SetTop(stack, Wrote(Top)), JsonValue_object(Top))
    /\ Log("JsonValue::object", <<>>, <<>>)
    /\ UNCHANGED <<pc, result>>

\* JsonValue::array up to the call of op.
ValueArray ==
    /\ Running("JsonValue") /\ CanOp /\ CanPush(1)
    /\ target' = JsonValue_array_open(target)
    /\ stack' = Append(SetTop(stack, Wrote(Top)), JsonValue_array(Top))
    /\ Log("JsonValue::array", <<>>, <<>>)
    /\ UNCHANGED <<pc, result>>

\* JsonValue::string
ValueString(value) ==
    /\ Running("JsonValue") /\ CanOp
    /\ target' = JsonValue_string(target, value)
    /\ stack' = SetTop(stack, Wrote(Top))
    /\ Log("JsonValue::string", value, <<>>)
    /\ UNCHANGED <<pc, result>>

\* JsonValue::raw
ValueRaw(value) ==
    /\ Running("JsonValue") /\ CanOp
    /\ target' = JsonValue_raw(target, value)
    /\ stack' = SetTop(stack, Wrote(Top))
    /\ Log("JsonValue::raw", value, <<>>)
    /\ UNCHANGED <<pc, result>>

\* The callback that was handed the JsonValue returns, and with it the
\* value method of the scope that made the JsonValue.
ValueReturn ==
    /\ Running("JsonValue")
    /\ stack' = Pop(stack)
    /\ Log("return", "JsonValue", <<>>)
    /\ UNCHANGED <<target, pc, result>>

\* A return that leaves the scopes as they were.
Closed_Retained(st) == st

\* A return that hands the scope below a fresh emptiness flag.
Closed_Reset(st) ==
    LET below == Pop(st)
        left == IF below[Len(below)].sugar THEN Pop(below) ELSE below
    IN  IF IsContainer(left[Len(left)])
        THEN [left EXCEPT ![Len(left)].empty = TRUE]
        ELSE left

\* The stack once the callback of the innermost JsonObject or JsonArray has
\* returned to JsonValue::object / JsonValue::array of the JsonValue below
\* it: that method returns too, and so does the closure that called it when
\* the JsonValue was made for one.
Closed(st) ==
    LET below == Pop(st)
    IN  IF below[Len(below)].sugar THEN Pop(below) ELSE below

\* JsonValue::object after op has returned.
ObjectReturn ==
    /\ Running("JsonObject")
    /\ target' = JsonValue_object_close(target, stack[Len(stack) - 1].indent)
    /\ stack' = Closed(stack)
    /\ Log("return", "JsonObject", <<>>)
    /\ UNCHANGED <<pc, result>>

\* JsonValue::array after op has returned.
ArrayReturn ==
    /\ Running("JsonArray")
    /\ target' = JsonValue_array_close(target, stack[Len(stack) - 1].indent)
    /\ stack' = Closed(stack)
    /\ Log("return", "JsonArray", <<>>)
    /\ UNCHANGED <<pc, result>>

\* ------------------------------------------------------- JsonObject ----

\* JsonObject::value with a callback of the caller.
ObjectValue(key) ==
    /\ Running("JsonObject") /\ CanOp /\ CanPush(1)
    /\ LET k == JsonObject_append_key(target, Top, key)
       IN  /\ target' = k.target
           /\ stack' = Append(SetTop(stack, Member(Top, key, target, k.target, k.empty)),
                              JsonObject_value(Top, FALSE))
    /\ Log("JsonObject::value", key, <<>>)
    /\ UNCHANGED <<pc, result>>

\* JsonObject::object: value(key, |json| json.object(op)), up to the call
\* of op.
ObjectObject(key) ==
    /\ Running("JsonObject") /\ CanOp /\ CanPush(2)
    /\ LET k == JsonObject_append_key(target, Top, key)
           v == Wrote(JsonObject_value(Top, TRUE))
       IN  /\ target' = JsonValue_object_open(k.target)
           /\ stack' = SetTop(stack, Member(Top, key, target, k.target, k.empty))
                           \o <<v, JsonValue_object(v)>>
    /\ Log("JsonObject::object", key, <<>>)
    /\ UNCHANGED <<pc, result>>

\* JsonObject::array: value(key, |json| json.array(op)), up to the call of
\* op.
ObjectArray(key) ==
    /\ Running("JsonObject") /\ CanOp /\ CanPush(2)
    /\ LET k == JsonObject_append_key(target, Top, key)
           v == Wrote(JsonObject_value(Top, TRUE))
       IN  /\ target' = JsonValue_array_open(k.target)
           /\ stack' = SetTop(stack, Member(Top, key, target, k.target, k.empty))
                           \o <<v, JsonValue_array(v)>>
    /\ Log("JsonObject::array", key, <<>>)
    /\ UNCHANGED <<pc, result>>

\* JsonObject::string: value(key, |json| json.string(value)).
ObjectString(key, value) ==
    /\ Running("JsonObject") /\ CanOp
    /\ LET k == JsonObject_append_key(target, Top, key)
       IN  /\ target' = JsonValue_string(k.target, value)
           /\ stack' = SetTop(stack, Member(Top, key, target, k.target, k.empty))
    /\ Log("JsonObject::string", key, value)
    /\ UNCHANGED <<pc, result>>

\* JsonObject::raw: value(key, |json| json.raw(value)).
ObjectRaw(key, value) ==
    /\ Running("JsonObject") /\ CanOp
    /\ LET k == JsonObject_append_key(target, Top, key)
       IN  /\ target' = JsonValue_raw(k.target, value)
           /\ stack' = SetTop(stack, Member(Top, key, target, k.target, k.empty))
    /\ Log("JsonObject::raw", key, value)
    /\ UNCHANGED <<pc, result>>

\* -------------------------------------------------------- JsonArray ----

\* JsonArray::value with a callback of the caller.
ArrayValue ==
    /\ Running("JsonArray") /\ CanOp /\ CanPush(1)
    /\ LET h == JsonArray_value_head(target, Top)
       IN  /\ target' = h.target
           /\ stack' = Append(SetTop(stack, Member(Top, <<>>, target, h.target, h.empty)),
                              JsonArray_value(Top, FALSE))
    /\ Log("JsonArray::value", <<>>, <<>>)
    /\ UNCHANGED <<pc, result>>

\* JsonArray::object: value(|json| json.object(op)), up to the call of op.
ArrayObject ==
    /\ Running("JsonArray") /\ CanOp /\ CanPush(2)
    /\ LET h == JsonArray_value_head(target, Top)
           v == Wrote(JsonArray_value(Top, TRUE))
       IN  /\ target' = JsonValue_object_open(h.target)
           /\ stack' = SetTop(stack, Member(Top, <<>>, target, h.target, h.empty))
                           \o <<v, JsonValue_object(v)>>
    /\ Log("JsonArray::object", <<>>, <<>>)
    /\ UNCHANGED <<pc, result>>

\* JsonArray::array: value(|json| json.array(op)), up to the call of op.
ArrayArray ==
    /\ Running("JsonArray") /\ CanOp /\ CanPush(2)
    /\ LET h == JsonArray_value_head(target, Top)
           v == Wrote(JsonArray_value(Top, TRUE))
       IN  /\ target' = JsonValue_array_open(h.target)
           /\ stack' = SetTop(stack, Member(Top, <<>>, target, h.target, h.empty))
                           \o <<v, JsonValue_array(v)>>
    /\ Log("JsonArray::array", <<>>, <<>>)
    /\ UNCHANGED <<pc, result>>

\* JsonArray::string: value(|json| json.string(value)).
ArrayString(value) ==
    /\ Running("JsonArray") /\ CanOp
    /\ LET h == JsonArray_value_head(target, Top)
       IN  /\ target' = JsonValue_string(h.target, value)
           /\ stack' = SetTop(stack, Member(Top, <<>>, target, h.target, h.empty))
    /\ Log("JsonArray::string", value, <<>>)
    /\ UNCHANGED <<pc, result>>

\* JsonArray::raw: value(|json| json.raw(value)).
ArrayRaw(value) ==
    /\ Running("JsonArray") /\ CanOp
    /\ LET h == JsonArray_value_head(target, Top)
       IN  /\ target' = JsonValue_raw(h.target, value)
           /\ stack' = SetTop(stack, Member(Top, <<>>, target, h.target, h.empty))
    /\ Log("JsonArray::raw", value, <<>>)
    /\ UNCHANGED <<pc, result>>

\* ----------------------------------------------------- WriteOrPanic ----

\* write_fmt that drops the result of the write.
WriteOrPanic_write_fmt_Ignore(res) == "run"

\* WriteOrPanic::write_fmt for String: where the build is after a write
\* with this result; expect() panics on an error.
WriteOrPanic_write_fmt(res) == IF res = "Err" THEN "panic" ELSE "run"

\* The first n characters of t.
Prefix(t, n) == SubSeq(t, 1, n)

\* JsonObject::append_key up to the write of the key.
JsonObject_append_key_head(t, f) ==
    JsonObject_append_indent(IF f.empty THEN t ELSE t \o <<",", NL>>, f.indent)
        \o <<QUOTE>>

\* A member write on a JsonObject whose key fails to display after n
\* characters of it have reached the buffer (write! in append_key).
KeyWriteFails(key, n) ==
    /\ Running("JsonObject") /\ CanOp
    /\ n \in 0..Len(json_str(key))
    /\ target' = JsonObject_append_key_head(target, Top) \o Prefix(json_str(key), n)
    /\ pc' = WriteOrPanic_write_fmt("Err")
    /\ Log("write failed", key, n)
    /\ UNCHANGED <<stack, result>>

\* JsonValue::string with a value that fails to display after n characters.
ValueStringFails(value, n) ==
    /\ Running("JsonValue") /\ CanOp
    /\ n \in 0..Len(json_str(value))
    /\ target' = target \o <<QUOTE>> \o Prefix(json_str(value), n)
    /\ pc' = WriteOrPanic_write_fmt("Err")
    /\ Log("write failed", value, n)
    /\ UNCHANGED <<stack, result>>

\* JsonValue::raw with a value that fails to display after n characters.
ValueRawFails(value, n) ==
    /\ Running("JsonValue") /\ CanOp
    /\ n \in 0..Len(json_str(value))
    /\ target' = target \o Prefix(json_str(value), n)
    /\ pc' = WriteOrPanic_write_fmt("Err")
    /\ Log("write failed", value, n)
    /\ UNCHANGED <<stack, result>>

\* --------------------------------------------------- specifications ----

\* JsonBuilder::build up to the call of op.
Init ==
    /\ target = <<>>
    /\ stack = <<Frame("JsonBuilder", 0, FALSE, FALSE)>>
    /\ pc = "run"
    /\ result = <<>>
    /\ trace = <<>>
    /\ EscIdle
    /\ QueryIdle
    /\ EtagsIdle
    /\ PathIdle

Next ==
    \/ BuilderValue /\ UNCHANGED <<evars, ovars>>
    \/ BuilderObject /\ UNCHANGED <<evars, ovars>>
    \/ BuilderArray /\ UNCHANGED <<evars, ovars>>
    \/ (\E value \in Strings : BuilderString(value)) /\ UNCHANGED <<evars, ovars>>
    \/ (\E value \in Raws : BuilderRaw(value)) /\ UNCHANGED <<evars, ovars>>
    \/ BuildReturn /\ UNCHANGED <<evars, ovars>>
    \/ ValueObject /\ UNCHANGED <<evars, ovars>>
    \/ ValueArray /\ UNCHANGED <<evars, ovars>>
    \/ (\E value \in Strings : ValueString(value)) /\ UNCHANGED <<evars, ovars>>
    \/ (\E value \in Raws : ValueRaw(value)) /\ UNCHANGED <<evars, ovars>>
    \/ ValueReturn /\ UNCHANGED <<evars, ovars>>
    \/ ObjectReturn /\ UNCHANGED <<evars, ovars>>
    \/ ArrayReturn /\ UNCHANGED <<evars, ovars>>
    \/ (\E key \in Keys : ObjectValue(key)) /\ UNCHANGED <<evars, ovars>>
    \/ (\E key \in Keys : ObjectObject(key)) /\ UNCHANGED <<evars, ovars>>
    \/ (\E key \in Keys : ObjectArray(key)) /\ UNCHANGED <<evars, ovars>>
    \/ (\E key \in Keys, value \in Strings : ObjectString(key, value)) /\ UNCHANGED <<evars, ovars>>
    \/ (\E key \in Keys, value \in Raws : ObjectRaw(key, value)) /\ UNCHANGED <<evars, ovars>>
    \/ ArrayValue /\ UNCHANGED <<evars, ovars>>
    \/ ArrayObject /\ UNCHANGED <<evars, ovars>>
    \/ ArrayArray /\ UNCHANGED <<evars, ovars>>
    \/ (\E value \in Strings : ArrayString(value)) /\ UNCHANGED <<evars, ovars>>
    \/ (\E value \in Raws : ArrayRaw(value)) /\ UNCHANGED <<evars, ovars>>

Spec == Init /\ [][Next]_vars

\* The builds of the scenarios: a top-level object whose callback writes
\* string members, raw members and arrays of raw elements.
NextScenario ==
    \/ BuilderObject /\ UNCHANGED <<evars, ovars>>
    \/ BuildReturn /\ UNCHANGED <<evars, ovars>>
    \/ ObjectReturn /\ UNCHANGED <<evars, ovars>>
    \/ ArrayReturn /\ UNCHANGED <<evars, ovars>>
    \/ (\E key \in ScenarioKeys : ObjectArray(key)) /\ UNCHANGED <<evars, ovars>>
    \/ (\E key \in ScenarioKeys, value \in ScenarioStrings : ObjectString(key, value))
            /\ UNCHANGED <<evars, ovars>>
    \/ (\E key \in ScenarioKeys, value \in ScenarioRaws : ObjectRaw(key, value))
            /\ UNCHANGED <<evars, ovars>>
    \/ (\E value \in ScenarioRaws : ArrayRaw(value)) /\ UNCHANGED <<evars, ovars>>

SpecScenario == Init /\ [][NextScenario]_vars

\* The longest text a key or value of the model is escaped to.
MaxEscaped == 5

\* The builds in which a write to the buffer may fail.  Every write that
\* can fail is one of the three write! calls, which the methods of
\* JsonValue and JsonObject::value reach; the shortcuts are compositions of
\* these.
NextFail ==
    \/ BuilderValue /\ UNCHANGED <<evars, ovars>>
    \/ BuildReturn /\ UNCHANGED <<evars, ovars>>
    \/ ValueObject /\ UNCHANGED <<evars, ovars>>
    \/ ValueArray /\ UNCHANGED <<evars, ovars>>
    \/ (\E value \in Strings : ValueString(value)) /\ UNCHANGED <<evars, ovars>>
    \/ (\E value \in Raws : ValueRaw(value)) /\ UNCHANGED <<evars, ovars>>
    \/ ValueReturn /\ UNCHANGED <<evars, ovars>>
    \/ ObjectReturn /\ UNCHANGED <<evars, ovars>>
    \/ ArrayReturn /\ UNCHANGED <<evars, ovars>>
    \/ (\E key \in Keys : ObjectValue(key)) /\ UNCHANGED <<evars, ovars>>
    \/ ArrayValue /\ UNCHANGED <<evars, ovars>>
    \/ (\E key \in Keys, n \in 0..MaxEscaped : KeyWriteFails(key, n))
            /\ UNCHANGED <<evars, ovars>>
    \/ (\E value \in Strings, n \in 0..MaxEscaped : ValueStringFails(value, n))
            /\ UNCHANGED <<evars, ovars>>
    \/ (\E value \in Raws, n \in 0..MaxEscaped : ValueRawFails(value, n))
            /\ UNCHANGED <<evars, ovars>>

SpecFail == Init /\ [][NextFail]_vars

\* json_str(val) is about to be displayed, for any text val displays as.
InitEsc ==
    /\ target = <<>>
    /\ stack = <<Frame("JsonBuilder", 0, FALSE, FALSE)>>
    /\ pc = "run"
    /\ result = <<>>
    /\ trace = <<>>
    /\ val \in TextsUpTo(MaxLen)
    /\ pending = val
    /\ s = <<>>
    /\ out = <<>>
    /\ epc = "fmt"
    /\ QueryIdle
    /\ EtagsIdle
    /\ PathIdle

NextEsc ==
    \/ (\E n \in 0..MaxLen : WriteStrCall(n)) /\ UNCHANGED <<bvars, ovars>>
    \/ WriteStrLoop /\ UNCHANGED <<bvars, ovars>>
    \/ WriteStrExit /\ UNCHANGED <<bvars, ovars>>
    \/ FmtReturn /\ UNCHANGED <<bvars, ovars>>

SpecEsc == InitEsc /\ [][NextEsc]_vars

\* ------------------------------------------------ reading JSON text ----

Digits == {"0", "1", "2", "3", "4", "5", "6", "7", "8", "9"}

IsWs(c) == c = SP \/ c = NL

\* The first position from i on that holds no whitespace.
RECURSIVE SkipWs(_, _)
SkipWs(t, i) ==
    IF i <= Len(t) /\ IsWs(t[i]) THEN SkipWs(t, i + 1) ELSE i

\* The position after the string literal whose content begins at i, 0 when
\* it is not closed or holds a backslash that escapes nothing.
RECURSIVE StrEnd(_, _)
StrEnd(t, i) ==
    IF i > Len(t) THEN 0
    ELSE IF t[i] = QUOTE THEN i + 1
    ELSE IF t[i] = BSL
         THEN IF i + 1 <= Len(t) /\ t[i + 1] \in {QUOTE, BSL}
              THEN StrEnd(t, i + 2)
              ELSE 0
    ELSE StrEnd(t, i + 1)

RECURSIVE NumEnd(_, _)
NumEnd(t, i) ==
    IF i <= Len(t) /\ t[i] \in Digits THEN NumEnd(t, i + 1) ELSE i

\* The position after the JSON value that begins at i, 0 when none does.
RECURSIVE ValueEnd(_, _)
RECURSIVE MembersEnd(_, _)
RECURSIVE ElementsEnd(_, _)
ValueEnd(t, i) ==
    IF i > Len(t) THEN 0
    ELSE IF t[i] = QUOTE THEN StrEnd(t, i + 1)
    ELSE IF t[i] \in Digits THEN NumEnd(t, i + 1)
    ELSE IF t[i] = "{"
         THEN LET j == SkipWs(t, i + 1)
              IN  IF j <= Len(t) /\ t[j] = "}" THEN j + 1 ELSE MembersEnd(t, j)
    ELSE IF t[i] = "["
         THEN LET j == SkipWs(t, i + 1)
              IN  IF j <= Len(t) /\ t[j] = "]" THEN j + 1 ELSE ElementsEnd(t, j)
    ELSE 0

\* The position after the "}" of the object whose next member begins at i.
MembersEnd(t, i) ==
    IF i > Len(t) \/ t[i] # QUOTE THEN 0
    ELSE LET k == StrEnd(t, i + 1)
             c == SkipWs(t, k)
         IN  IF k = 0 \/ c > Len(t) \/ t[c] # ":" THEN 0
             ELSE LET v == ValueEnd(t, SkipWs(t, c + 1))
                      e == SkipWs(t, v)
                  IN  IF v = 0 \/ e > Len(t) THEN 0
                      ELSE IF t[e] = "," THEN MembersEnd(t, SkipWs(t, e + 1))
                      ELSE IF t[e] = "}" THEN e + 1
                      ELSE 0

\* The position after the "]" of the array whose next element begins at i.
ElementsEnd(t, i) ==
    LET v == ValueEnd(t, i)
        e == SkipWs(t, v)
    IN  IF v = 0 \/ e > Len(t) THEN 0
        ELSE IF t[e] = "," THEN ElementsEnd(t, SkipWs(t, e + 1))
        ELSE IF t[e] = "]" THEN e + 1
        ELSE 0

\* t is one JSON value, with whitespace around it at most.
IsJsonValue(t) ==
    LET e == ValueEnd(t, SkipWs(t, 1))
    IN  e # 0 /\ SkipWs(t, e) = Len(t) + 1

\* ------------------------------------------------------------ claims ----

Last == trace[Len(trace)]

Suffix(t, n) == SubSeq(t, Len(t) - n + 1, Len(t))

\* The number of separators (a comma followed by a newline) that begin in
\* t[from..to].
SepsIn(t, from, to) ==
    Cardinality({ i \in from..to : i + 1 <= Len(t) /\ t[i] = "," /\ t[i + 1] = NL })

\* C1: the text build returns is exactly one well-formed JSON value, for
\* every callback (raw texts being JSON values, strings free of control
\* characters).
C1_OneJsonValue == pc = "done" => IsJsonValue(result)

\* C2: a JsonValue is single-use: no second write operation (string, raw,
\* object, array) is ever invoked on the same instance.
C2_ValueSingleUse ==
    \A i \in 1..Len(stack) : stack[i].kind = "JsonValue" => stack[i].writes <= 1

\* The reference transformation of C3: every character on its own, '"' and
\* backslash preceded by a backslash, everything else copied.
RECURSIVE Reference(_)
Reference(t) ==
    IF t = <<>> THEN <<>>
    ELSE (IF Head(t) \in {QUOTE, BSL} THEN <<BSL, Head(t)>> ELSE <<Head(t)>>)
             \o Reference(Tail(t))

\* C3: json_str(s) is the reference transformation of s, whatever the
\* pieces s is handed over in, and on the examples of the test.
C3_json_str_Reference ==
    /\ epc = "done" => out = Reference(val)
    /\ json_str(<<"f", "o", "o">>) = <<"f", "o", "o">>
    /\ json_str(<<"f", QUOTE, "o", "o">>) = <<"f", BSL, QUOTE, "o", "o">>
    /\ json_str(<<"f", BSL, "o", "o">>) = <<"f", BSL, BSL, "o", "o">>
    /\ json_str(<<BSL, "o", "o">>) = <<BSL, BSL, "o", "o">>
    /\ json_str(<<"f", "o", "o", BSL>>) = <<"f", "o", "o", BSL, BSL>>

C3_Witness ==
    /\ epc = "done"
    /\ Len(val) = MaxLen
    /\ \E i, j, k \in 1..Len(val) : val[i] = QUOTE /\ val[j] = BSL /\ val[k] = NL
    /\ Len(out) = Len(val) + 2

\* The positions of t from i on that hold a '"' which is not the second
\* character of a backslash pair, reading t as escape pairs.
RECURSIVE BareQuotes(_, _)
BareQuotes(t, i) ==
    IF i > Len(t) THEN {}
    ELSE IF t[i] = BSL THEN BareQuotes(t, i + 2)
    ELSE IF t[i] = QUOTE THEN {i} \cup BareQuotes(t, i + 1)
    ELSE BareQuotes(t, i + 1)

\* Does reading t from i on as escape pairs end on a backslash that has no
\* second character?
RECURSIVE Dangling(_, _)
Dangling(t, i) ==
    IF i > Len(t) THEN FALSE
    ELSE IF t[i] = BSL THEN i = Len(t) \/ Dangling(t, i + 2)
    ELSE Dangling(t, i + 1)

\* C4: in the escaper's output every '"' is the second character of a
\* backslash pair and no backslash dangles, so that in the quoted output
\* the only bare '"' are the two delimiters.
C4_NoBareQuote ==
    epc \in {"fmt", "done"} =>
        /\ BareQuotes(out, 1) = {}
        /\ ~Dangling(out, 1)
        /\ BareQuotes(<<QUOTE>> \o out \o <<QUOTE>>, 1) = {1, Len(out) + 2}

C4_Witness ==
    /\ epc = "done"
    /\ val = <<QUOTE, BSL, QUOTE>>
    /\ Len(out) = 6

RawOps == {"JsonBuilder::raw", "JsonValue::raw", "JsonObject::raw", "JsonArray::raw"}

\* The text a raw operation of the history was given.
RawArg(e) == IF e[1] = "JsonObject::raw" THEN e[3] ELSE e[2]

\* C5: a raw write appends the given text verbatim, whatever the text.
C5_RawVerbatim ==
    (trace # <<>> /\ Last[1] \in RawOps) =>
        Suffix(target, Len(RawArg(Last))) = RawArg(Last)

MemberOps ==
    {"JsonObject::value", "JsonObject::object", "JsonObject::array",
     "JsonObject::string", "JsonObject::raw",
     "JsonArray::value", "JsonArray::object", "JsonArray::array",
     "JsonArray::string", "JsonArray::raw"}

OpenOps ==
    {"JsonBuilder::object", "JsonBuilder::array", "JsonValue::object",
     "JsonValue::array", "JsonObject::object", "JsonObject::array",
     "JsonArray::object", "JsonArray::array"}

\* This step is the operation named by one of names.
StepOf(names) ==
    /\ Len(trace') = Len(trace) + 1
    /\ trace'[Len(trace')][1] \in names

\* C6: the emptiness flag of a JsonObject or JsonArray starts true; a member
\* or element write appends the separator, as the first thing it appends
\* and nowhere else, if and only if the flag was false when it began, and
\* leaves the flag false.
C6_SeparatorIffNotEmpty ==
    [][ /\ StepOf(MemberOps) =>
            LET at == Len(target) + 1
            IN  /\ SepAt(target', at) <=> ~Top.empty
                /\ SepsIn(target', at, Len(target')) = (IF Top.empty THEN 0 ELSE 1)
                /\ ~stack'[Len(stack)].empty
        /\ StepOf(OpenOps) =>
            /\ IsContainer(stack'[Len(stack')])
            /\ stack'[Len(stack')].empty
      ]_vars

C6_Witness ==
    \E i \in 1..Len(stack) :
        /\ stack[i].kind = "JsonArray"
        /\ Len(stack[i].members) = 2
        /\ ~stack[i].empty
        /\ ~SepAt(target, stack[i].members[1].at)
        /\ SepAt(target, stack[i].members[2].at)

\* The separators the scope f has emitted: those that begin in the part of
\* the buffer one of its member writes wrote before the member's value.
OwnSeps(f) ==
    Cardinality({ p \in 1..Len(target) :
        /\ p + 1 <= Len(target) /\ target[p] = "," /\ target[p + 1] = NL
        /\ \E m \in 1..Len(f.members) : f.members[m].at <= p /\ p <= f.members[m].to })

\* C7: a JsonObject on which N member writes were performed has emitted
\* N-1 separators when N >= 1, and none when N = 0.
C7_SeparatorCount ==
    \A i \in 1..Len(stack) :
        stack[i].kind = "JsonObject" =>
            LET n == Len(stack[i].members)
            IN  /\ OwnSeps(stack[i]) = (IF n = 0 THEN 0 ELSE n - 1)
                /\ stack[i].seps = OwnSeps(stack[i])

C7_Witness ==
    \E i \in 1..Len(stack) :
        /\ stack[i].kind = "JsonObject"
        /\ Len(stack[i].members) = 3
        /\ OwnSeps(stack[i]) = 2

\* A member's key as it stands in the output.
KeyText(key) == <<QUOTE>> \o json_str(key) \o <<QUOTE, ":", SP>>

\* C8: the members of a JsonObject stand in the output in the order the
\* member operations were invoked, one after the other, each with the key
\* it was given: none is reordered, dropped or merged, duplicates included.
C8_MemberOrder ==
    /\ \A i \in 1..Len(stack) :
        stack[i].kind = "JsonObject" =>
            \A m \in 1..Len(stack[i].members) :
                LET mem == stack[i].members[m]
                    text == SubSeq(target, mem.at, mem.to)
                IN  /\ mem.at <= mem.to /\ mem.to <= Len(target)
                    /\ Len(text) >= Len(KeyText(mem.key))
                    /\ Suffix(text, Len(KeyText(mem.key))) = KeyText(mem.key)
                    /\ m > 1 => stack[i].members[m - 1].to < mem.at
    /\ (trace # <<>> /\ Last[1] \in {"JsonObject::string", "JsonObject::raw"}) =>
            /\ Top.members # <<>>
            /\ Top.members[Len(Top.members)].key = Last[2]

C8_Witness ==
    \E i \in 1..Len(stack) :
        /\ stack[i].kind = "JsonObject"
        /\ Len(stack[i].members) = 3
        /\ stack[i].members[1].key = stack[i].members[3].key
        /\ stack[i].members[1].key # stack[i].members[2].key

\* The nesting depth of the members of the scope stack[i]: the objects and
\* arrays that are open around them, stack[i] included.
Depth(i) == Cardinality({ j \in 1..i : IsContainer(stack[j]) })

\* C9: a member key or array element at nesting depth D is preceded on its
\* line by exactly D indent units of 3 spaces, and a top-level object with
\* the one string member k = v is rendered with the member indented by 3
\* spaces and the closing brace by none.
C9_IndentIsDepth ==
    /\ \A i \in 1..Len(stack) :
        IsContainer(stack[i]) =>
            \A m \in 1..Len(stack[i].members) :
                LET at == stack[i].members[m].at
                    p == IF SepAt(target, at) THEN at + 2 ELSE at
                    n == 3 * Depth(i)
                IN  /\ SubSeq(target, p, p + n - 1) = IndentText(Depth(i))
                    /\ p + n <= Len(target) => target[p + n] # SP
    /\ ( /\ pc = "done"
         /\ trace = << Op("JsonBuilder::object", <<>>, <<>>),
                       Op("JsonObject::string", <<"k">>, <<"v">>),
                       Op("return", "JsonObject", <<>>),
                       Op("return", "JsonBuilder", <<>>) >> )
       => result = << "{", NL, SP, SP, SP, QUOTE, "k", QUOTE, ":", SP,
                      QUOTE, "v", QUOTE, NL, "}" >>

\* C10: a top-level object whose callback writes no member is rendered as
\* an opening brace, two newlines and a closing brace.
C10_EmptyObject ==
    ( /\ pc = "done"
      /\ trace = << Op("JsonBuilder::object", <<>>, <<>>),
                    Op("return", "JsonObject", <<>>),
                    Op("return", "JsonBuilder", <<>>) >> )
    => result = << "{", NL, NL, "}" >>

\* C11: a top-level object with the string member name = ok and then the
\* raw member count = 3 is rendered with both members indented by 3 spaces
\* and the closing brace by none.
C11_NameCount ==
    ( /\ pc = "done"
      /\ trace = << Op("JsonBuilder::object", <<>>, <<>>),
                    Op("JsonObject::string", <<"n", "a", "m", "e">>, <<"o", "k">>),
                    Op("JsonObject::raw", <<"c", "o", "u", "n", "t">>, <<"3">>),
                    Op("return", "JsonObject", <<>>),
                    Op("return", "JsonBuilder", <<>>) >> )
    => result = << "{", NL,
                   SP, SP, SP, QUOTE, "n", "a", "m", "e", QUOTE, ":", SP, QUOTE, "o", "k", QUOTE,
                   ",", NL,
                   SP, SP, SP, QUOTE, "c", "o", "u", "n", "t", QUOTE, ":", SP, "3", NL,
                   "}" >>

\* C12: a top-level object with the one array member xs whose callback
\* writes the raw elements 1 and 2 is rendered with the key indented by 3
\* spaces, the elements by 6, the closing bracket by 3 and the closing
\* brace by none.
C12_ArrayMember ==
    ( /\ pc = "done"
      /\ trace = << Op("JsonBuilder::object", <<>>, <<>>),
                    Op("JsonObject::array", <<"x", "s">>, <<>>),
                    Op("JsonArray::raw", <<"1">>, <<>>),
                    Op("JsonArray::raw", <<"2">>, <<>>),
                    Op("return", "JsonArray", <<>>),
                    Op("return", "JsonObject", <<>>),
                    Op("return", "JsonBuilder", <<>>) >> )
    => result = << "{", NL,
                   SP, SP, SP, QUOTE, "x", "s", QUOTE, ":", SP, "[", NL,
                   SP, SP, SP, SP, SP, SP, "1", ",", NL,
                   SP, SP, SP, SP, SP, SP, "2", NL,
                   SP, SP, SP, "]", NL,
                   "}" >>

\* ------------------------------------------------- replaying a build ----

\* The buffer and the scopes after the operation e of a history, invoked
\* with the buffer and the scopes of m: the operations of the builder as
\* one function.
Step(m, e) ==
    LET tg == m.target
        st == m.stack
        top == st[Len(st)]
        name == e[1]
        a == e[2]
        b == e[3]
        k == JsonObject_append_key(tg, top, a)
        h == JsonArray_value_head(tg, top)
        inObject == SetTop(st, Member(top, a, tg, k.target, k.empty))
        inArray == SetTop(st, Member(top, <<>>, tg, h.target, h.empty))
        bv == Wrote(JsonBuilder_value(TRUE))
        ov == Wrote(JsonObject_value(top, TRUE))
        av == Wrote(JsonArray_value(top, TRUE))
    IN  CASE name = "JsonBuilder::value" ->
                [target |-> tg, stack |-> Append(st, JsonBuilder_value(FALSE))]
          [] name = "JsonBuilder::object" ->
                [target |-> JsonValue_object_open(tg),
                 stack |-> st \o <<bv, JsonValue_object(bv)>>]
          [] name = "JsonBuilder::array" ->
                [target |-> JsonValue_array_open(tg),
                 stack |-> st \o <<bv, JsonValue_array(bv)>>]
          [] name = "JsonBuilder::string" ->
                [target |-> JsonValue_string(tg, a), stack |-> st]
          [] name = "JsonBuilder::raw" ->
                [target |-> JsonValue_raw(tg, a), stack |-> st]
          [] name = "JsonValue::object" ->
                [target |-> JsonValue_object_open(tg),
                 stack |-> Append(SetTop(st, Wrote(top)), JsonValue_object(top))]
          [] name = "JsonValue::array" ->
                [target |-> JsonValue_array_open(tg),
                 stack |-> Append(SetTop(st, Wrote(top)), JsonValue_array(top))]
          [] name = "JsonValue::string" ->
                [target |-> JsonValue_string(tg, a), stack |-> SetTop(st, Wrote(top))]
          [] name = "JsonValue::raw" ->
                [target |-> JsonValue_raw(tg, a), stack |-> SetTop(st, Wrote(top))]
          [] name = "JsonObject::value" ->
                [target |-> k.target,
                 stack |-> Append(inObject, JsonObject_value(top, FALSE))]
          [] name = "JsonObject::object" ->
                [target |-> JsonValue_object_open(k.target),
                 stack |-> inObject \o <<ov, JsonValue_object(ov)>>]
          [] name = "JsonObject::array" ->
                [target |-> JsonValue_array_open(k.target),
                 stack |-> inObject \o <<ov, JsonValue_array(ov)>>]
          [] name = "JsonObject::string" ->
                [target |-> JsonValue_string(k.target, b), stack |-> inObject]
          [] name = "JsonObject::raw" ->
                [target |-> JsonValue_raw(k.target, b), stack |-> inObject]
          [] name = "JsonArray::value" ->
                [target |-> h.target,
                 stack |-> Append(inArray, JsonArray_value(top, FALSE))]
          [] name = "JsonArray::object" ->
                [target |-> JsonValue_object_open(h.target),
                 stack |-> inArray \o <<av, JsonValue_object(av)>>]
          [] name = "JsonArray::array" ->
                [target |-> JsonValue_array_open(h.target),
                 stack |-> inArray \o <<av, JsonValue_array(av)>>]
          [] name = "JsonArray::string" ->
                [target |-> JsonValue_string(h.target, a), stack |-> inArray]
          [] name = "JsonArray::raw" ->
                [target |-> JsonValue_raw(h.target, a), stack |-> inArray]
          [] name = "return" /\ a = "JsonValue" ->
                [target |-> tg, stack |-> Pop(st)]
          [] name = "return" /\ a = "JsonObject" ->
                [target |-> JsonValue_object_close(tg, st[Len(st) - 1].indent),
                 stack |-> Closed(st)]
          [] name = "return" /\ a = "JsonArray" ->
                [target |-> JsonValue_array_close(tg, st[Len(st) - 1].indent),
                 stack |-> Closed(st)]
          [] OTHER -> m

\* The buffer and the scopes after the operations of the history tr, in a
\* build of its own.
RECURSIVE Run(_)
Run(tr) ==
    IF tr = <<>>
    THEN [target |-> <<>>, stack |-> <<Frame("JsonBuilder", 0, FALSE, FALSE)>>]
    ELSE Step(Run(SubSeq(tr, 1, Len(tr) - 1)), tr[Len(tr)])

\* The history of the build that hands the callback of the top-level
\* object of this build to object() of the top-level JsonValue, and returns
\* from the callback of that JsonValue right after.
Explicit(tr) ==
    << Op("JsonBuilder::value", <<>>, <<>>), Op("JsonValue::object", <<>>, <<>>) >>
        \o Tail(tr) \o << Op("return", "JsonValue", <<>>) >>

\* The one operation on the JsonBuilder so far is object(), and its
\* callback has just returned.
ShortcutDone ==
    /\ pc = "run"
    /\ Len(stack) = 1
    /\ trace # <<>>
    /\ trace[1][1] = "JsonBuilder::object"
    /\ Last = Op("return", "JsonObject", <<>>)
    /\ \A i \in 2..Len(trace) : trace[i][1] \notin
            {"JsonBuilder::value", "JsonBuilder::object", "JsonBuilder::array",
             "JsonBuilder::string", "JsonBuilder::raw"}

\* C13: the object shortcut of the builder (JsonBuilder::object, and with
\* it ok_object) leaves the buffer and the builder as the build does that
\* takes the top-level JsonValue and calls object(op) on it, for every
\* callback op; replaying a history gives the state the build is in.
C13_ObjectShortcutIsSugar ==
    /\ pc = "run" => Run(trace) = [target |-> target, stack |-> stack]
    /\ ShortcutDone =>
          Run(Explicit(trace)) = [target |-> target, stack |-> stack]

C13_Witness ==
    /\ ShortcutDone
    /\ Len(trace) >= 6
    /\ \E i \in 1..Len(trace) : trace[i][1] = "JsonObject::array"
    /\ \E i \in 1..Len(trace) : trace[i][1] = "JsonObject::string"

\* A write to the buffer has failed in this build.
Failed == \E i \in 1..Len(trace) : trace[i][1] = "write failed"

\* C14: once a write to the buffer has failed the build has panicked at
\* that write: nothing is invoked or appended afterwards and build returns
\* no text, partial or not.
C14_FailedWriteAborts ==
    Failed =>
        /\ pc = "panic"
        /\ Last[1] = "write failed"
        /\ result = <<>>

C14_Witness ==
    /\ Failed
    /\ pc = "panic"
    /\ Len(trace) = MaxOps
    /\ Last[3] = 2
    /\ Len(target) > 10

\* The kind of scope the entry e of a history was invoked on or, for a
\* return, whose callback returned.
ScopeOf(e) ==
    IF IsReturn(e) THEN e[2]
    ELSE IF e[1] \in {"JsonBuilder::value", "JsonBuilder::object", "JsonBuilder::array",
                      "JsonBuilder::string", "JsonBuilder::raw"} THEN "JsonBuilder"
    ELSE IF e[1] \in {"JsonValue::object", "JsonValue::array",
                      "JsonValue::string", "JsonValue::raw"} THEN "JsonValue"
    ELSE IF e[1] \in {"JsonObject::value", "JsonObject::object", "JsonObject::array",
                      "JsonObject::string", "JsonObject::raw"} THEN "JsonObject"
    ELSE IF e[1] \in {"JsonArray::value", "JsonArray::object", "JsonArray::array",
                      "JsonArray::string", "JsonArray::raw"} THEN "JsonArray"
    ELSE "none"

\* The kinds of the scopes that callbacks of the caller hold after the
\* entry e, when they held those of live before it, innermost last.
LiveAfter(live, e) ==
    IF IsReturn(e) THEN Pop(live)
    ELSE IF e[1] \in {"JsonBuilder::value", "JsonObject::value", "JsonArray::value"}
         THEN Append(live, "JsonValue")
    ELSE IF e[1] \in {"JsonBuilder::object", "JsonValue::object",
                      "JsonObject::object", "JsonArray::object"}
         THEN Append(live, "JsonObject")
    ELSE IF e[1] \in {"JsonBuilder::array", "JsonValue::array",
                      "JsonObject::array", "JsonArray::array"}
         THEN Append(live, "JsonArray")
    ELSE live

\* The kinds of the scopes on the stack that a callback of the caller holds.
Visible(st) ==
    LET held == SelectSeq(st, LAMBDA f : ~f.sugar)
    IN  [i \in 1..Len(held) |-> held[i].kind]

\* From its entry i on, every entry of the history is an operation on, or
\* the return of, the innermost scope live at that time, and the scopes
\* live at the end are those on the stack.
RECURSIVE Nested(_, _)
Nested(i, live) ==
    IF i > Len(trace) THEN pc = "run" => live = Visible(stack)
    ELSE /\ live # <<>>
         /\ ScopeOf(trace[i]) = live[Len(live)]
         /\ Nested(i + 1, LiveAfter(live, trace[i]))

C16_NestedMemberIndent ==
    /\ (trace # <<>> /\ Last[1] \in {"JsonObject::object", "JsonObject::array"}) =>
            Top.indent = stack[Len(stack) - 2].indent + 1
    /\ (trace # <<>> /\ Last = Op("return", "JsonObject", <<>>) /\ Top.kind = "JsonObject") =>
            Suffix(target, 3 * Top.indent + 2)
                = <<NL>> \o IndentText(Top.indent) \o <<"}">>
    /\ (trace # <<>> /\ Last = Op("return", "JsonArray", <<>>) /\ Top.kind = "JsonObject") =>
            Suffix(target, 3 * Top.indent + 2)
                = <<NL>> \o IndentText(Top.indent) \o <<"]">>

\* C17: every scope has the indent of the scope that made it plus 1, the
\* top-level JsonValue has indent 1, and the indent of a JsonObject or
\* JsonArray is the nesting depth of its members in the JSON text.
C17_IndentIsNestingDepth ==
    \A i \in 2..Len(stack) :
        /\ i = 2 => stack[i].indent = 1
        /\ i > 2 => stack[i].indent = stack[i - 1].indent + 1
        /\ IsContainer(stack[i]) => stack[i].indent = Depth(i)

\* C18: every member write on a JsonObject first appends, in this order,
\* the separator unless it is the first member, the indent units of the
\* scope, a quote, the escaped key, a quote, a colon and a space, and the
\* member's value comes after that.
C18_KeyBeforeValue ==
    /\ \A i \in 1..Len(stack) :
          stack[i].kind = "JsonObject" =>
              \A m \in 1..Len(stack[i].members) :
                  LET mem == stack[i].members[m]
                  IN  SubSeq(target, mem.at, mem.to)
                          = (IF m > 1 THEN <<",", NL>> ELSE <<>>)
                               \o IndentText(stack[i].indent)
                               \o <<QUOTE>> \o Reference(mem.key) \o <<QUOTE, ":", SP>>
    /\ (trace # <<>> /\ Last[1] = "JsonObject::string") =>
          LET mem == Top.members[Len(Top.members)]
          IN  /\ mem.key = Last[2]
              /\ SubSeq(target, mem.to + 1, Len(target))
                     = <<QUOTE>> \o Reference(Last[3]) \o <<QUOTE>>
    /\ (trace # <<>> /\ Last[1] = "JsonObject::raw") =>
          LET mem == Top.members[Len(Top.members)]
          IN  /\ mem.key = Last[2]
              /\ mem.to < Len(target)

C18_Witness ==
    /\ trace # <<>>
    /\ Last = Op("JsonObject::string", <<QUOTE, BSL>>, <<BSL, QUOTE>>)
    /\ Len(Top.members) = 2
    /\ Top.members[1].key = <<"k">>

\* ----------------------------------------------------- RequestQuery ----

\* The keys and values of the query strings of the model.
QueryKeys == {"a", "c"}

QueryValues == {"b", "d", "g"}

\* A key no query string of the model holds.
AbsentKey == "e"

None == [some |-> FALSE]

Some(x) == [some |-> TRUE, value |-> x]

\* QueryValue::Single and QueryValue::Multi
Single(v) == [tag |-> "Single", value |-> v]

Multi(vec) == [tag |-> "Multi", vec |-> vec]

\* into_multi that forgets the value the Single held.
into_multi_DropOld(qv) ==
    IF qv.tag = "Multi" THEN qv.vec ELSE <<>>

\* QueryValue::into_multi: the Vec of the value once it is a Multi.
into_multi(qv) ==
    IF qv.tag = "Multi" THEN qv.vec ELSE <<qv.value>>

\* RequestQuery::insert: the map afterwards.
RequestQuery_insert(q, key, value) ==
    IF key \in DOMAIN q
    THEN [q EXCEPT ![key] = Multi(Append(into_multi(q[key]), value))]
    ELSE [k \in DOMAIN q \cup {key} |-> IF k = key THEN Single(value) ELSE q[k]]

\* RequestQuery::take: the map afterwards.
RequestQuery_take(q, key) == [k \in DOMAIN q \ {key} |-> q[k]]

\* RequestQuery::get
RequestQuery_get(q, key) ==
    IF key \notin DOMAIN q THEN None
    ELSE IF q[key].tag = "Single" THEN Some(<<q[key].value>>)
    ELSE Some(q[key].vec)

\* RequestQuery::get_first
RequestQuery_get_first(q, key) ==
    IF key \notin DOMAIN q THEN None
    ELSE IF q[key].tag = "Single" THEN Some(q[key].value)
    ELSE IF q[key].vec = <<>> THEN None
    ELSE Some(q[key].vec[1])

\* RequestQuery::from_uri: the next pair of the query string is inserted.
QueryInsert(key, value) ==
    /\ Len(qlog) < MaxQueryOps
    /\ query' = RequestQuery_insert(query, key, value)
    /\ qlog' = Append(qlog, <<"insert", key, value>>)
    /\ UNCHANGED <<tvars, pvars>>

\* RequestQuery::take
QueryTake(key) ==
    /\ Len(qlog) < MaxQueryOps
    /\ query' = RequestQuery_take(query, key)
    /\ qlog' = Append(qlog, <<"take", key, "">>)
    /\ UNCHANGED <<tvars, pvars>>

\* RequestQuery::default()
InitQuery ==
    /\ target = <<>>
    /\ stack = <<Frame("JsonBuilder", 0, FALSE, FALSE)>>
    /\ pc = "run"
    /\ result = <<>>
    /\ trace = <<>>
    /\ EscIdle
    /\ QueryIdle
    /\ EtagsIdle
    /\ PathIdle

NextQuery ==
    \/ (\E key \in QueryKeys, value \in QueryValues : QueryInsert(key, value))
            /\ UNCHANGED <<bvars, evars>>
    \/ (\E key \in QueryKeys : QueryTake(key)) /\ UNCHANGED <<bvars, evars>>

SpecQuery == InitQuery /\ [][NextQuery]_vars

\* The values inserted for key since it was last taken, in the order of the
\* history log.
RECURSIVE ValuesFor(_, _)
ValuesFor(log, key) ==
    IF log = <<>> THEN <<>>
    ELSE LET e == log[Len(log)]
             before == ValuesFor(SubSeq(log, 1, Len(log) - 1), key)
         IN  IF e[2] # key THEN before
             ELSE IF e[1] = "take" THEN <<>>
             ELSE Append(before, e[3])

\* C19: get(key) returns the values inserted for key, in insertion order
\* (stored as a Single for one value and as a Multi of length k for k >= 2
\* values), get_first(key) the first of them, and both None for a key that
\* was not inserted (or was taken since).
C19_QueryValuesInOrder ==
    \A key \in QueryKeys \cup {AbsentKey} :
        LET vs == ValuesFor(qlog, key)
        IN  /\ vs = <<>> =>
                /\ RequestQuery_get(query, key) = None
                /\ RequestQuery_get_first(query, key) = None
            /\ vs # <<>> =>
                /\ RequestQuery_get(query, key) = Some(vs)
                /\ RequestQuery_get_first(query, key) = Some(vs[1])
                /\ query[key] = (IF Len(vs) = 1 THEN Single(vs[1]) ELSE Multi(vs))

C19_Witness ==
    /\ qlog = << <<"insert", "a", "b">>, <<"insert", "c", "d">>,
                 <<"insert", "c", "g">>, <<"insert", "c", "b">> >>
    /\ query["a"] = Single("b")
    /\ query["c"] = Multi(<<"d", "g", "b">>)
    /\ RequestQuery_get_first(query, "c") = Some("d")

\* -------------------------------------------------------- EtagsIter ----

\* The characters of the header values of the model: the quote, the weak
\* prefix, the comma, white space and an ordinary character.
EtagChars == {QUOTE, "W", "/", ",", SP, "a"}

\* All texts over chars of length at most n.
RECURSIVE TextsOver(_, _)
TextsOver(chars, n) ==
    IF n = 0 THEN { <<>> }
    ELSE LET shorter == TextsOver(chars, n - 1)
         IN  shorter \cup { Append(t, c) : t \in { u \in shorter : Len(u) = n - 1 }, c \in chars }

\* str::trim_start
RECURSIVE trim_start(_)
trim_start(t) ==
    IF t # <<>> /\ Head(t) = SP THEN trim_start(Tail(t)) ELSE t

\* str::starts_with
starts_with(t, p) == Len(t) >= Len(p) /\ SubSeq(t, 1, Len(p)) = p

\* str::find('"'): the number of characters up to and including the first
\* quote of t, 0 for None.
RECURSIVE find_quote(_)
find_quote(t) ==
    IF t = <<>> THEN 0
    ELSE IF Head(t) = QUOTE THEN 1
    ELSE LET r == find_quote(Tail(t))
         IN  IF r = 0 THEN 0 ELSE r + 1

\* prefix_len that counts the weak prefix without its quote.
prefix_len_ShortWeak(t) ==
    IF starts_with(t, <<QUOTE>>) THEN 1
    ELSE IF starts_with(t, <<"W", "/", QUOTE>>) THEN 2
    ELSE 0

\* The prefix_len of EtagsIter::next for the trimmed text t, 0 where next
\* returns None.
prefix_len(t) ==
    IF starts_with(t, <<QUOTE>>) THEN 1
    ELSE IF starts_with(t, <<"W", "/", QUOTE>>) THEN 3
    ELSE 0

\* EtagsIter::next on an iterator that holds t: what it returns and what the
\* iterator holds afterwards.
EtagsIter_next(t) ==
    LET t1 == trim_start(t)
        pl == prefix_len(t1)
        found == find_quote(SubSeq(t1, pl + 1, Len(t1)))
        end == found + pl
        t2 == trim_start(SubSeq(t1, end + 1, Len(t1)))
        t3 == IF starts_with(t2, <<",">>) THEN trim_start(Tail(t2)) ELSE t2
    IN  IF t1 = <<>> \/ pl = 0 \/ found = 0
        THEN [item |-> None, rest |-> t1]
        ELSE [item |-> Some(SubSeq(t1, 1, end)), rest |-> t3]

\* A call of next(), also after it has returned None.
EtagsNext ==
    /\ tpc \in {"iter", "none"}
    /\ LET r == EtagsIter_next(etags)
       IN  /\ etags' = r.rest
           /\ items' = IF r.item.some THEN Append(items, r.item.value) ELSE items
           /\ tpc' = IF r.item.some THEN "iter" ELSE "none"
    /\ UNCHANGED <<header, qvars, pvars>>

\* EtagsIter(header), for any header value.
InitEtags ==
    /\ target = <<>>
    /\ stack = <<Frame("JsonBuilder", 0, FALSE, FALSE)>>
    /\ pc = "run"
    /\ result = <<>>
    /\ trace = <<>>
    /\ EscIdle
    /\ QueryIdle
    /\ PathIdle
    /\ header \in TextsOver(EtagChars, MaxHeaderLen)
    /\ etags = header
    /\ items = <<>>
    /\ tpc = "iter"

NextEtags == EtagsNext /\ UNCHANGED <<bvars, evars>>

SpecEtags == InitEtags /\ [][NextEtags]_vars

\* An entity tag: a quote, or W/ and a quote, then characters other than
\* the quote, then a quote.
IsTag(t) ==
    LET body == IF starts_with(t, <<"W", "/">>) THEN SubSeq(t, 3, Len(t)) ELSE t
    IN  /\ Len(body) >= 2
        /\ body[1] = QUOTE
        /\ body[Len(body)] = QUOTE
        /\ \A i \in 2..(Len(body) - 1) : body[i] # QUOTE

\* The position of t from i on that holds no space.
RECURSIVE SkipSpaces(_, _)
SkipSpaces(t, i) == IF i <= Len(t) /\ t[i] = SP THEN SkipSpaces(t, i + 1) ELSE i

\* t from position i on is the tags of its from number n on, in order, each
\* with nothing but spaces before it and spaces and at most one comma
\* after it.
RECURSIVE TagsThenGaps(_, _, _, _)
TagsThenGaps(t, i, its, n) ==
    LET p == SkipSpaces(t, i)
    IN  IF n > Len(its) THEN p = Len(t) + 1
        ELSE LET e == p + Len(its[n]) - 1
                 c == SkipSpaces(t, e + 1)
             IN  /\ e <= Len(t)
                 /\ SubSeq(t, p, e) = its[n]
                 /\ TagsThenGaps(t, IF c <= Len(t) /\ t[c] = "," THEN c + 1 ELSE c, its, n + 1)

\* What next() has read of the header value so far.
Consumed == SubSeq(header, 1, Len(header) - Len(etags))

\* No tag begins t: t is empty, begins with neither a quote nor W/ and a
\* quote, or has no quote to close the tag it begins with.
NoTagAt(t) ==
    \/ t = <<>>
    \/ ~(t[1] = QUOTE \/ starts_with(t, <<"W", "/", QUOTE>>))
    \/ Cardinality({ i \in 1..Len(t) : t[i] = QUOTE }) < 2

\* C20: the items of an EtagsIter are the entity tags of the header value in
\* order, quotes and W/ included, separated by spaces and at most one comma
\* (a comma inside a tag splits nothing, spaces and a trailing comma add no
\* item), and next() returns None, and goes on to, where no tag begins.
C20_EtagsInOrder ==
    tpc \in {"iter", "none"} =>
        /\ \A n \in 1..Len(items) : IsTag(items[n])
        /\ Len(etags) <= Len(header)
        /\ Suffix(header, Len(etags)) = etags
        /\ TagsThenGaps(Consumed, 1, items, 1)
        /\ tpc = "none" => NoTagAt(etags)
        /\ items # <<>> => (etags = <<>> \/ etags[1] # SP)

C20_Witness ==
    /\ tpc = "none"
    /\ header = <<QUOTE, ",", QUOTE, ",", SP>>
    /\ items = << <<QUOTE, ",", QUOTE>> >>
    /\ etags = <<>>

\* ------------------------------------------------ balanced delimiters ----

\* The opening delimiter of a container scope.
Opener(f) == IF f.kind = "JsonObject" THEN "{" ELSE "["

\* The opening delimiter a closing one matches.
OpenerOf(c) == IF c = "}" THEN "{" ELSE "["

\* The delimiters of t, in order.  No key, string or raw value of the model
\* holds a delimiter, so every delimiter of the buffer is one that
\* JsonValue::object or JsonValue::array has written.
Delimiters(t) == SelectSeq(t, LAMBDA c : c \in {"{", "[", "}", "]"})

\* The opening delimiters of t that are not closed yet, outermost first,
\* found by reading t from position i on with open the ones before i.
\* <<"!">> if a closing delimiter meets no opening one or the wrong one.
RECURSIVE Unclosed(_, _, _)
Unclosed(t, i, open) ==
    IF i > Len(t) THEN open
    ELSE IF t[i] \in {"{", "["} THEN Unclosed(t, i + 1, Append(open, t[i]))
    ELSE IF t[i] \in {"}", "]"}
         THEN IF open # <<>> /\ open[Len(open)] = OpenerOf(t[i])
              THEN Unclosed(t, i + 1, SubSeq(open, 1, Len(open) - 1))
              ELSE <<"!">>
    ELSE Unclosed(t, i + 1, open)

\* The opening delimiters of the containers whose callback has not
\* returned, outermost first.
RECURSIVE OpenersOf(_)
OpenersOf(st) ==
    IF st = <<>> THEN <<>>
    ELSE LET f == st[Len(st)]
             below == OpenersOf(SubSeq(st, 1, Len(st) - 1))
         IN  IF IsContainer(f) THEN Append(below, Opener(f)) ELSE below

\* C21: while the callbacks run, the delimiters of the buffer that are not
\* closed yet are those of the containers whose callback is running, in the
\* order they were opened, every closing delimiter closes the container
\* opened last, and the text build returns leaves none open.
C21_BalancedDelimiters ==
    /\ pc = "run" => Unclosed(Delimiters(target), 1, <<>>) = OpenersOf(stack)
    /\ pc = "done" => Unclosed(Delimiters(result), 1, <<>>) = <<>>

C21_Witness ==
    /\ pc = "done"
    /\ Delimiters(result) = <<"{", "[", "]", "}">>

\* ------------------------------------------------------ frame effects ----

\* p is the beginning of t.
IsPrefix(p, t) == Len(p) <= Len(t) /\ SubSeq(t, 1, Len(p)) = p

\* C22: every operation and every return of every scope leaves the buffer
\* as it was and adds to its end: the buffer before the step is a prefix of
\* the buffer after it.
C22_AppendOnly == [][IsPrefix(target, target')]_vars

\* An element of an array of an object has been written and the array has
\* been closed: writes of three scopes lie behind each other in the buffer.
C22_Witness ==
    /\ pc = "run"
    /\ Top.kind = "JsonObject"
    /\ Len(trace) >= 4
    /\ Last = Op("return", "JsonArray", <<>>)
    /\ \E i \in 1..Len(trace) : trace[i][1] \in {"JsonArray::string", "JsonArray::raw"}

\* C23: no step changes the kind or the indent of a scope, no step changes
\* the emptiness flag of a scope other than the innermost one, which is a
\* scope whose callee is running, up to and including the return of that
\* callee, so the flag of a container is FALSE as its member write left it
\* for as long as a scope made by that write is running, and no step takes
\* an emptiness flag from FALSE back to TRUE.
C23_ParentUnchanged ==
    [][\A i \in 1..Len(stack) :
          i <= Len(stack') =>
              /\ stack'[i].kind = stack[i].kind
              /\ stack'[i].indent = stack[i].indent
              /\ stack'[i].empty => stack[i].empty
              /\ i < Len(stack) =>
                    /\ stack'[i].empty = stack[i].empty
                    /\ IsContainer(stack[i]) => ~stack[i].empty]_vars

\* A container that was written to by a nested container, which wrote a
\* member of its own, and that has the control again.
C23_Witness ==
    /\ pc = "run"
    /\ IsContainer(Top)
    /\ ~Top.empty
    /\ Len(Top.members) = 1
    /\ Len(trace) >= 4
    /\ Last[1] = "return" /\ Last[2] \in {"JsonObject", "JsonArray"}
    /\ trace[Len(trace) - 1][1] \in MemberOps

\* ------------------------------------------------- escaper, inverted ----

\* t with the backslash of each escape pair removed, reading t from the
\* left; a backslash that ends t stays.
RECURSIVE Unescape(_)
Unescape(t) ==
    IF t = <<>> THEN <<>>
    ELSE IF Head(t) = BSL /\ Len(t) >= 2
         THEN <<t[2]>> \o Unescape(SubSeq(t, 3, Len(t)))
    ELSE <<Head(t)>> \o Unescape(Tail(t))

\* The number of '"' and backslash characters of t.
Specials(t) == Cardinality({ i \in 1..Len(t) : t[i] \in {QUOTE, BSL} })

\* C24: removing the backslash of each escape pair of json_str(s) gives s,
\* json_str(s) is longer than s by the number of '"' and backslash
\* characters of s, so it is s exactly when s has none, and escaping it
\* once more changes it exactly when s has one.
C24_EscaperInvertible ==
    epc = "done" =>
        /\ Unescape(out) = val
        /\ Len(out) = Len(val) + Specials(val)
        /\ (out = val) <=> (Specials(val) = 0)
        /\ (json_str(out) = out) <=> (Specials(val) = 0)

C24_Witness ==
    /\ epc = "done"
    /\ val = <<BSL, BSL, QUOTE>>
    /\ out = <<BSL, BSL, BSL, BSL, BSL, QUOTE>>
    /\ json_str(out) # out

\* --------------------------------------------------------- PathIter ----

\* The characters of the paths of the model: the slash and two others.
PathChars == {"/", "a", "b"}

\* new that keeps the leading slash.
PathIter_new_Keep(path) == [full |-> path, remaining |-> path]

\* PathIter::new
PathIter_new(path) ==
    [full |-> path,
     remaining |-> IF starts_with(path, <<"/">>) THEN SubSeq(path, 2, Len(path)) ELSE path]

\* str::find('/'): the number of characters up to and including the first
\* slash of t, 0 for None.
RECURSIVE find_slash(_)
find_slash(t) ==
    IF t = <<>> THEN 0
    ELSE IF Head(t) = "/" THEN 1
    ELSE LET r == find_slash(Tail(t))
         IN  IF r = 0 THEN 0 ELSE r + 1

\* PathIter::next on an iterator whose remaining is r: what it returns and
\* the remaining it leaves.
PathIter_next(r) ==
    LET slash == find_slash(r)
    IN  IF r = <<>> THEN [item |-> None, remaining |-> r]
        ELSE IF slash = 0 THEN [item |-> Some(r), remaining |-> <<>>]
        ELSE [item |-> Some(SubSeq(r, 1, slash - 1)),
              remaining |-> SubSeq(r, slash + 1, Len(r))]

\* A call of next(), also after it has returned None.
PathNext ==
    /\ ipc \in {"iter", "none"}
    /\ LET r == PathIter_next(remaining)
       IN  /\ remaining' = r.remaining
           /\ segments' = IF r.item.some THEN Append(segments, r.item.value) ELSE segments
           /\ ipc' = IF r.item.some THEN "iter" ELSE "none"
    /\ UNCHANGED <<full, qvars, tvars>>

\* PathIter::new(path), for any path.
InitPath ==
    /\ target = <<>>
    /\ stack = <<Frame("JsonBuilder", 0, FALSE, FALSE)>>
    /\ pc = "run"
    /\ result = <<>>
    /\ trace = <<>>
    /\ EscIdle
    /\ QueryIdle
    /\ EtagsIdle
    /\ \E path \in TextsOver(PathChars, MaxPathLen) :
        /\ full = PathIter_new(path).full
        /\ remaining = PathIter_new(path).remaining
    /\ segments = <<>>
    /\ ipc = "iter"

NextPath == PathNext /\ UNCHANGED <<bvars, evars>>

SpecPath == InitPath /\ [][NextPath]_vars

\* The segments its joined by slashes.
RECURSIVE Join(_)
Join(its) ==
    IF its = <<>> THEN <<>>
    ELSE IF Len(its) = 1 THEN its[1]
    ELSE its[1] \o <<"/">> \o Join(Tail(its))

\* path without one leading slash and then without one trailing slash.
Trimmed(path) ==
    LET p == IF path # <<>> /\ path[1] = "/" THEN Tail(path) ELSE path
    IN  IF p # <<>> /\ p[Len(p)] = "/" THEN SubSeq(p, 1, Len(p) - 1) ELSE p

\* C25: before and after every call of next() remaining is a suffix of
\* full; a call that returns a segment returns one without a slash and
\* leaves remaining shorter; a call returns None exactly when remaining is
\* empty, and so does every call after it; and once next() has returned
\* None the segments joined by slashes are the path without one leading and
\* one trailing slash.
C25_PathSegments ==
    [][/\ Len(remaining) <= Len(full) /\ Suffix(full, Len(remaining)) = remaining
       /\ Len(remaining') <= Len(full') /\ Suffix(full', Len(remaining')) = remaining'
       /\ Len(segments') > Len(segments) =>
             /\ segments' = Append(segments, segments'[Len(segments')])
             /\ \A i \in 1..Len(segments'[Len(segments')]) : segments'[Len(segments')][i] # "/"
             /\ Len(remaining') < Len(remaining)
       /\ (ipc' = "none") <=> (remaining = <<>>)
       /\ (ipc' = "none") <=> (segments' = segments)
       /\ ipc = "none" => ipc' = "none"
       /\ ipc' = "none" => Join(segments') = Trimmed(full')]_vars

C25_Witness ==
    /\ ipc = "none"
    /\ full = <<"/", "a", "/", "b", "/">>
    /\ segments = << <<"a">>, <<"b">> >>
    /\ remaining = <<>>

====
